---------------------------- MODULE Spec2Model ----------------------------
(***************************************************************************)
(* MoodFit session analytics engine (src/src/utils/analytics.ts), session  *)
(* recorder (src/src/pages/SessionRecorder.tsx) and session storage        *)
(* (src/src/utils/sessionStorage.ts).                                      *)
(*                                                                         *)
(* The engine is a pure function computeExerciseAnalytics(session, opts).  *)
(* The state machine below builds a session frame by frame (the capture    *)
(* side), applies the engine to it, and keeps the returned result.  The    *)
(* recorder's buffers and the stored sessions are followed by the          *)
(* specifications SpecRecorder and SpecLogs.                               *)
(*                                                                         *)
(* Number representation                                                   *)
(*   - landmark coordinates: integers (image grid units);                  *)
(*   - angles: integers in units of 1/AngleUnit degree.  getAngle yields   *)
(*     the whole degree nearest to the code's floating-point value; with   *)
(*     AngleUnit = 120 the bilateral mean (/2) and every smoothing window  *)
(*     mean (/1 .. /5) of such values is exact;                            *)
(*   - scores: exact rationals <<num, den>>, den > 0; a frame score after  *)
(*     toFixed(3) is <<n, 1000>>;                                          *)
(*   - null / undefined number: Null; NaN: NaN (both outside every value   *)
(*     range); a missing landmark or a null score: <<>>.                   *)
(* Floating-point rounding error of the JavaScript arithmetic is not       *)
(* modelled: sums, means and comparisons are those of the real numbers.    *)
(***************************************************************************)
EXTENDS Integers, Sequences, FiniteSets, TLC

\* the engine and its caller
VARIABLES session, opts, result, pc, args, registry
\* the session recorder page (src/src/pages/SessionRecorder.tsx)
VARIABLES recording, startTs, framesRef, framesFullRef
\* localStorage (src/src/utils/sessionStorage.ts) and the ids handed out
VARIABLES summaries, fullSessions, nextId

engineVars == <<session, opts, result, registry>>
recorderVars == <<recording, startTs, framesRef, framesFullRef>>
storeVars == <<summaries, fullSessions, nextId>>
appVars == <<recorderVars, storeVars>>
vars == <<session, opts, result, pc, args, registry, recorderVars, storeVars>>

\* the recorder page as mounted and localStorage without sessions
AppInit ==
    /\ recording = FALSE
    /\ startTs = 0 - 1
    /\ framesRef = <<>>
    /\ framesFullRef = <<>>
    /\ summaries = <<>>
    /\ fullSessions = <<>>
    /\ nextId = 1

Null == 0 - 1
NaN == 0 - 2

AngleUnit == 2 * 60
Deg(d) == d * AngleUnit

Abs(x) == IF x < 0 THEN 0 - x ELSE x
Max(a, b) == IF a >= b THEN a ELSE b
Min(a, b) == IF a <= b THEN a ELSE b

RECURSIVE Gcd(_, _)
Gcd(a, b) == IF b = 0 THEN a ELSE Gcd(b, a % b)

\* the rational n/d in lowest terms (n >= 0, d > 0)
Rat(n, d) == LET g == Gcd(n, d) IN <<n \div g, d \div g>>
RatAdd(p, q) == Rat(p[1] * q[2] + q[1] * p[2], p[2] * q[2])
RatGe(p, q) == p[1] * q[2] >= q[1] * p[2]
Milli(m) == <<m, 1000>>

RECURSIVE SumSeq(_)
SumSeq(s) == IF s = <<>> THEN 0 ELSE Head(s) + SumSeq(Tail(s))

RECURSIVE RatSum(_)
RatSum(s) == IF s = <<>> THEN <<0, 1>> ELSE RatAdd(Head(s), RatSum(Tail(s)))

RECURSIVE SelectIdx(_, _, _)
\* the indices i in lo..hi with keep[i], in increasing order
SelectIdx(keep, lo, hi) ==
    IF lo > hi THEN <<>>
    ELSE (IF keep[lo] THEN <<lo>> ELSE <<>>) \o SelectIdx(keep, lo + 1, hi)

\* the sequence f with every element evaluated once
Tuple(f) == SubSeq(f, 1, Len(f))

SetMin(S) == CHOOSE x \in S : \A y \in S : x <= y
SetMax(S) == CHOOSE x \in S : \A y \in S : x >= y

(***************************************************************************)
(* Strings: a JavaScript string is a sequence of one-character strings.    *)
(***************************************************************************)
Str_squat == <<"s", "q", "u", "a", "t">>
Str_pushup == <<"p", "u", "s", "h", "u", "p">>
Str_plank == <<"p", "l", "a", "n", "k">>
Str_lunge == <<"l", "u", "n", "g", "e">>
Str_tree == <<"t", "r", "e", "e">>
Str_warrior2 == <<"w", "a", "r", "r", "i", "o", "r", "2">>
Str_default == <<"d", "e", "f", "a", "u", "l", "t">>

UpperChars == <<"A", "D", "E", "G", "H", "K", "L", "N", "P", "Q", "S", "T", "U">>
LowerChars == <<"a", "d", "e", "g", "h", "k", "l", "n", "p", "q", "s", "t", "u">>

\* String.prototype.toLowerCase, one character
LowerChar(c) ==
    IF \E i \in 1..Len(UpperChars) : UpperChars[i] = c
    THEN LowerChars[CHOOSE i \in 1..Len(UpperChars) : UpperChars[i] = c]
    ELSE c

toLowerCase(s) == [i \in 1..Len(s) |-> LowerChar(s[i])]

IsSpace(c) == c = " "

\* String.prototype.trim: drop the leading and the trailing white space
trim(s) ==
    LET ink == {i \in 1..Len(s) : ~IsSpace(s[i])}
    IN  IF ink = {} THEN <<>> ELSE SubSeq(s, SetMin(ink), SetMax(ink))

\* String.prototype.includes
includes(s, k) ==
    \E i \in 0..(Len(s) - Len(k)) : SubSeq(s, i + 1, i + Len(k)) = k

(***************************************************************************)
(* RULES: thresholds per exercise/pose.  metrics keeps the declaration     *)
(* order of the keys (Object.keys); thresholds are in thousandths;         *)
(* minFramesForRep is <<n>>, or <<>> for Infinity.                         *)
(***************************************************************************)
Metric(name, ideal, tol) == [name |-> name, ideal |-> ideal, tol |-> tol]

Infinity == <<>>

RuleKeys == <<"squat", "pushup", "plank", "lunge", "tree", "warrior2", "default">>

KeyChars ==
    [squat |-> Str_squat, pushup |-> Str_pushup, plank |-> Str_plank,
     lunge |-> Str_lunge, tree |-> Str_tree, warrior2 |-> Str_warrior2,
     default |-> Str_default]

RULES ==
    [squat |->
        [primaryMetric |-> "knee",
         metrics |-> <<Metric("knee", 90, 28), Metric("back", 180, 40)>>,
         minFramesForRep |-> <<6>>,
         correctRatioThreshold |-> 550,
         framePassThreshold |-> 600,
         polarity |-> "valley"],
     pushup |->
        [primaryMetric |-> "elbow",
         metrics |-> <<Metric("elbow", 90, 28), Metric("body", 180, 20)>>,
         minFramesForRep |-> <<6>>,
         correctRatioThreshold |-> 550,
         framePassThreshold |-> 600,
         polarity |-> "valley"],
     plank |->
        [primaryMetric |-> "body",
         metrics |-> <<Metric("body", 180, 12)>>,
         minFramesForRep |-> Infinity,
         correctRatioThreshold |-> 850,
         framePassThreshold |-> 850,
         polarity |-> "none"],
     lunge |->
        [primaryMetric |-> "front_knee",
         metrics |-> <<Metric("front_knee", 90, 22), Metric("torso", 180, 30)>>,
         minFramesForRep |-> <<6>>,
         correctRatioThreshold |-> 550,
         framePassThreshold |-> 600,
         polarity |-> "valley"],
     tree |->
        [primaryMetric |-> "standing_leg",
         metrics |-> <<Metric("standing_leg", 180, 15), Metric("arms", 180, 25)>>,
         minFramesForRep |-> Infinity,
         correctRatioThreshold |-> 900,
         framePassThreshold |-> 850,
         polarity |-> "none"],
     warrior2 |->
        [primaryMetric |-> "front_knee",
         metrics |-> <<Metric("front_knee", 90, 20), Metric("arms", 180, 20)>>,
         minFramesForRep |-> Infinity,
         correctRatioThreshold |-> 850,
         framePassThreshold |-> 800,
         polarity |-> "none"],
     default |->
        [primaryMetric |-> "knee",
         metrics |-> <<Metric("knee", 90, 40), Metric("back", 180, 40)>>,
         minFramesForRep |-> <<6>>,
         correctRatioThreshold |-> 500,
         framePassThreshold |-> 550,
         polarity |-> "valley"]]

(***************************************************************************)
(* Utilities                                                               *)
(***************************************************************************)
SinHalfTable ==
  <<873, 2618, 4362, 6105, 7846, 9585, 11320, 13053, 14781, 16505,
    18224, 19937, 21644, 23345, 25038, 26724, 28402, 30071, 31730, 33381,
    35021, 36650, 38268, 39875, 41469, 43051, 44620, 46175, 47716, 49242,
    50754, 52250, 53730, 55194, 56641, 58070, 59482, 60876, 62251, 63608,
    64945, 66262, 67559, 68835, 70091, 71325, 72537, 73728, 74896, 76041,
    77162, 78261, 79335, 80386, 81412, 82413, 83389, 84339, 85264, 86163,
    87036, 87882, 88701, 89493, 90259, 90996, 91706, 92388, 93042, 93667,
    94264, 94832, 95372, 95882, 96363, 96815, 97237, 97630, 97992, 98325,
    98629, 98902, 99144, 99357, 99540, 99692, 99813, 99905, 99966, 99996>>

\* 10^5 * sin and cos of (k - 1/2) degrees, k in 1..180
SinHalf(k) == IF k <= 90 THEN SinHalfTable[k] ELSE SinHalfTable[181 - k]
CosHalf(k) == IF k <= 90 THEN SinHalfTable[91 - k] ELSE 0 - SinHalfTable[k - 90]

\* Math.acos(cos) * 180 / Math.PI to the nearest degree, for the angle whose
\* cosine is dot / (magAB * magCB) and whose sine is cross / (magAB * magCB),
\* cross >= 0: the angle t satisfies t >= u exactly when sin(t - u) >= 0, so
\* the result is the number of half-degree marks u = k - 1/2 (k in 1..180)
\* the angle has passed, found by bisection.
RECURSIVE MarksPassed(_, _, _, _)
MarksPassed(dot, cross, lo, hi) ==
    IF lo = hi THEN lo
    ELSE LET mid == (lo + hi + 1) \div 2
         IN  IF cross * CosHalf(mid) - dot * SinHalf(mid) >= 0
             THEN MarksPassed(dot, cross, mid, hi)
             ELSE MarksPassed(dot, cross, lo, mid - 1)

AcosDegrees(dot, cross) == MarksPassed(dot, cross, 0, 180)

\* getAngle without the test for a zero-length ray: 0 / 0
getAngle_NoZeroCheck(a, b, c) ==
    IF a = <<>> \/ b = <<>> \/ c = <<>> THEN Null
    ELSE IF a = b \/ c = b THEN NaN
    ELSE Deg(AcosDegrees((a[1] - b[1]) * (c[1] - b[1]) + (a[2] - b[2]) * (c[2] - b[2]),
                         Abs((a[1] - b[1]) * (c[2] - b[2])
                                 - (a[2] - b[2]) * (c[1] - b[1]))))

getAngle(a, b, c) ==
    IF a = <<>> \/ b = <<>> \/ c = <<>> THEN Null
    ELSE LET abx == a[1] - b[1]
             aby == a[2] - b[2]
             cbx == c[1] - b[1]
             cby == c[2] - b[2]
             dot == abx * cbx + aby * cby
             cross == abx * cby - aby * cbx
             magAB2 == abx * abx + aby * aby
             magCB2 == cbx * cbx + cby * cby
         IN  IF magAB2 = 0 \/ magCB2 = 0 THEN Null
             ELSE Deg(AcosDegrees(dot, Abs(cross)))

\* a JavaScript number-or-null used as a condition: null and 0 are falsy
Truthy(v) == v # Null /\ v # 0
OrZero(v) == IF Truthy(v) THEN v ELSE 0

\* [l, r].filter(Boolean).length ? ((l || 0) + (r || 0)) / ((l ? 1 : 0) + (r ? 1 : 0)) : null
BilateralMean(l, r) ==
    IF Truthy(l) \/ Truthy(r)
    THEN (OrZero(l) + OrZero(r))
            \div ((IF Truthy(l) THEN 1 ELSE 0) + (IF Truthy(r) THEN 1 ELSE 0))
    ELSE Null

(***************************************************************************)
(* Metric extraction (MediaPipe pose indices).  A landmark list is a       *)
(* function on LandmarkIdx; a landmark is <<x, y>>, or <<>> when the list  *)
(* has no entry at that index.                                             *)
(***************************************************************************)
LandmarkIdx == {7, 8, 11, 12, 13, 14, 15, 16, 23, 24, 25, 26, 27, 28}

\* front_knee taken from the leg whose knee landmark is lower in the image
FrontKnee_LowerKnee(left, right, knee) ==
    IF left[2] # <<>> /\ right[2] # <<>>
    THEN IF left[2][2] > right[2][2]
         THEN getAngle(left[1], left[2], left[3])
         ELSE getAngle(right[1], right[2], right[3])
    ELSE knee

\* r.front_knee, from the <<hip, knee, ankle>> landmarks of each leg and r.knee
FrontKnee(left, right, knee) ==
    IF left[2] # <<>> /\ right[2] # <<>>
    THEN IF left[2][2] < right[2][2]
         THEN getAngle(left[1], left[2], left[3])
         ELSE getAngle(right[1], right[2], right[3])
    ELSE knee

computeMetricAnglesFromLandmarks(lm) ==
    LET get(i) == lm[i]
        leftHip == get(23)
        rightHip == get(24)
        leftKnee == get(25)
        rightKnee == get(26)
        leftAnkle == get(27)
        rightAnkle == get(28)
        leftShoulder == get(11)
        rightShoulder == get(12)
        leftElbow == get(13)
        rightElbow == get(14)
        leftWrist == get(15)
        rightWrist == get(16)
        leftEar == get(7)
        rightEar == get(8)
        leftKneeAngle == getAngle(leftHip, leftKnee, leftAnkle)
        rightKneeAngle == getAngle(rightHip, rightKnee, rightAnkle)
        knee == BilateralMean(leftKneeAngle, rightKneeAngle)
        leftBack == getAngle(leftEar, leftShoulder, leftHip)
        rightBack == getAngle(rightEar, rightShoulder, rightHip)
        leftElbowAngle == getAngle(leftShoulder, leftElbow, leftWrist)
        rightElbowAngle == getAngle(rightShoulder, rightElbow, rightWrist)
        elbow == BilateralMean(leftElbowAngle, rightElbowAngle)
        leftBody == getAngle(leftShoulder, leftHip, leftAnkle)
        rightBody == getAngle(rightShoulder, rightHip, rightAnkle)
        front_knee == FrontKnee(<<leftHip, leftKnee, leftAnkle>>,
                                <<rightHip, rightKnee, rightAnkle>>, knee)
        hip ==
            IF leftHip # <<>> /\ leftShoulder # <<>> /\ leftKnee # <<>>
            THEN getAngle(leftShoulder, leftHip, leftKnee)
            ELSE IF rightHip # <<>> /\ rightShoulder # <<>> /\ rightKnee # <<>>
                 THEN getAngle(rightShoulder, rightHip, rightKnee)
                 ELSE Null
    IN  [knee |-> knee,
         back |-> BilateralMean(leftBack, rightBack),
         elbow |-> elbow,
         body |-> BilateralMean(leftBody, rightBody),
         front_knee |-> front_knee,
         hip |-> hip,
         arms |-> elbow]

(***************************************************************************)
(* The poses a captured frame can show in the model.                       *)
(***************************************************************************)
Add2(p, q) == <<p[1] + q[1], p[2] + q[2]>>
Sub2(p, q) == <<p[1] - q[1], p[2] - q[2]>>

\* a side-on figure, left and right landmarks coinciding: trunk upright, each
\* limb's upper segment reaching from the joint by `upper` to the hip or
\* shoulder and its lower segment from the joint by `lower` to ankle or wrist
Figure(upper, lower) ==
    LET hip == <<100, 100>>
        shoulder == <<100, 70>>
        ear == <<100, 60>>
        knee == Sub2(hip, upper)
        elbow == Sub2(shoulder, upper)
    IN  [i \in LandmarkIdx |->
            CASE i \in {7, 8} -> ear
              [] i \in {11, 12} -> shoulder
              [] i \in {13, 14} -> elbow
              [] i \in {15, 16} -> Add2(elbow, lower)
              [] i \in {23, 24} -> hip
              [] i \in {25, 26} -> knee
              [] i \in {27, 28} -> Add2(knee, lower)]

PoseUp == Figure(<<0, 0 - 57>>, <<7, 80>>)         \* knee and elbow 175
PoseHalf == Figure(<<0, 0 - 30>>, <<15, 26>>)      \* knee and elbow 150
PoseDown == Figure(<<0 - 57, 0>>, <<0 - 5, 57>>)   \* knee and elbow 85
PoseEmpty == [i \in LandmarkIdx |-> <<>>]          \* no landmark detected

\* the poses of a movement, from standing to the bottom of the movement
PoseChain == <<PoseUp, PoseHalf, PoseDown>>
Poses == {PoseChain[k] : k \in 1..Len(PoseChain)} \union {PoseEmpty}

\* computeMetricAnglesFromLandmarks, with its value on each pose above
\* computed once
KnownPoses == PoseChain \o <<PoseEmpty>>
KnownAngles ==
    Tuple([k \in 1..Len(KnownPoses) |->
              computeMetricAnglesFromLandmarks(KnownPoses[k])])
MetricAnglesOf(lm) ==
    IF \E k \in 1..Len(KnownPoses) : KnownPoses[k] = lm
    THEN KnownAngles[CHOOSE k \in 1..Len(KnownPoses) : KnownPoses[k] = lm]
    ELSE computeMetricAnglesFromLandmarks(lm)


(***************************************************************************)
(* Scoring helpers                                                         *)
(***************************************************************************)
NoSpec == [name |-> "", ideal |-> 0, tol |-> 0]

\* getMetricScore reading a missing value as 0 (value ?? 0)
getMetricScore_NullAsZero(value, spec) ==
    IF spec = NoSpec THEN <<>>
    ELSE LET v == IF value = Null THEN 0 ELSE value
             err == Abs(v - Deg(spec.ideal))
             ef == IF spec.tol <= 0
                   THEN (IF err = 0 THEN <<0, 1>> ELSE <<1, 1>>)
                   ELSE (IF err >= Deg(spec.tol) THEN <<1, 1>>
                         ELSE Rat(err, Deg(spec.tol)))
         IN  Rat(ef[2] - ef[1], ef[2])

\* getMetricScore without the clamps: 1 - err / tol
getMetricScore_NoClamp(value, spec) ==
    IF value = Null \/ spec.tol <= 0 THEN <<>>
    ELSE LET err == Abs(value - Deg(spec.ideal))
             g == Gcd(err, Deg(spec.tol))
         IN  <<(Deg(spec.tol) - err) \div g, Deg(spec.tol) \div g>>

\* 1 - min(1, err / tol), then max(0, .)
getMetricScore(value, spec) ==
    IF value = Null \/ spec = NoSpec THEN <<>>
    ELSE LET err == Abs(value - Deg(spec.ideal))
             ef == IF spec.tol <= 0
                   THEN (IF err = 0 THEN <<0, 1>> ELSE <<1, 1>>)
                   ELSE (IF err >= Deg(spec.tol) THEN <<1, 1>>
                         ELSE Rat(err, Deg(spec.tol)))
             score == Rat(ef[2] - ef[1], ef[2])
         IN  IF score[1] < 0 THEN <<0, 1>> ELSE score

\* frameCategoryFromScore testing the Good breakpoint before the Excellent one
frameCategoryFromScore_GoodFirst(score) ==
    IF score = <<>> THEN "Unknown"
    ELSE IF RatGe(score, Milli(650)) THEN "Good"
    ELSE IF RatGe(score, Milli(850)) THEN "Excellent"
    ELSE IF RatGe(score, Milli(400)) THEN "Fair"
    ELSE "Poor"

frameCategoryFromScore(score) ==
    IF score = <<>> THEN "Unknown"
    ELSE IF RatGe(score, Milli(850)) THEN "Excellent"
    ELSE IF RatGe(score, Milli(650)) THEN "Good"
    ELSE IF RatGe(score, Milli(400)) THEN "Fair"
    ELSE "Poor"

\* Number(x.toFixed(3)): x to the nearest thousandth, ties upwards
toFixed3(x) == Milli((2000 * x[1] + x[2]) \div (2 * x[2]))

\* Math.round: to the nearest integer, ties upwards; <<0, 0>> is 0 / 0, NaN
MathRound(x) == IF x[2] = 0 THEN NaN ELSE (2 * x[1] + x[2]) \div (2 * x[2])

\* a ?? b on numbers
Coalesce(a, b) == IF a = Null THEN b ELSE a

\* MetricValue reading 0 for a metric the extractor does not produce
MetricValue_MissingAsZero(metricAngles, mk) ==
    IF mk \in DOMAIN metricAngles THEN metricAngles[mk] ELSE 0

\* the value of metric mk in the extracted metrics, undefined when the
\* extractor produces no such key
MetricValue(metricAngles, mk) ==
    IF mk \in DOMAIN metricAngles THEN metricAngles[mk] ELSE Null

\* smoothSeries giving 0 where the window has no value
smoothSeries_EmptyAsZero(vals, radius) ==
    [i \in 1..Len(vals) |->
        LET win == {j \in Max(1, i - radius)..Min(Len(vals), i + radius) :
                        vals[j] # Null}
            idx == SelectIdx([j \in 1..Len(vals) |-> j \in win], 1, Len(vals))
        IN  IF win = {} THEN 0
            ELSE SumSeq([k \in 1..Len(idx) |-> vals[idx[k]]]) \div Cardinality(win)]

smoothSeries(vals, radius) ==
    [i \in 1..Len(vals) |->
        LET win == {j \in Max(1, i - radius)..Min(Len(vals), i + radius) :
                        vals[j] # Null}
            idx == SelectIdx([j \in 1..Len(vals) |-> j \in win], 1, Len(vals))
        IN  IF win = {} THEN NaN
            ELSE SumSeq([k \in 1..Len(idx) |-> vals[idx[k]]]) \div Cardinality(win)]

isFinite(v) == v # NaN /\ v # Null

\* sampled indices 0, step, 2*step, ... of the timeline (1-based here)
buildSampled(timeline, step) ==
    LET idx == SelectIdx([i \in 1..Len(timeline) |-> (i - 1) % step = 0],
                         1, Len(timeline))
    IN  [k \in 1..Len(idx) |->
            LET p == timeline[idx[k]]
            IN  [timeSec |-> MathRound(<<p.t, 1000>>),
                 value |-> Coalesce(p.kneeAngle, Coalesce(p.elbowAngle,
                               Coalesce(p.bodyAngle, p.backAngle))),
                 value2 |-> Coalesce(p.backAngle, p.bodyAngle),
                 correct |-> p.correct,
                 score |-> p.score,
                 category |-> p.category]]

(***************************************************************************)
(* Generic analyzer by rule                                                *)
(***************************************************************************)
\* MetricScores counting a metric without a value as a score of 0
MetricScores_NullAsZero(metricAngles, metrics) ==
    Tuple([k \in 1..Len(metrics) |->
              IF getMetricScore(MetricValue(metricAngles, metrics[k].name),
                                metrics[k]) = <<>>
              THEN <<0, 1>>
              ELSE getMetricScore(MetricValue(metricAngles, metrics[k].name),
                                  metrics[k])])

\* the scores of the rule's metrics on a frame, missing ones left out
MetricScores(metricAngles, metrics) ==
    SelectSeq(Tuple([k \in 1..Len(metrics) |->
                  getMetricScore(MetricValue(metricAngles, metrics[k].name),
                                 metrics[k])]),
              LAMBDA ms : ms # <<>>)

\* the mean of the metric scores to three decimals, null when there are none
FrameScore(metricScores) ==
    IF Len(metricScores) = 0 THEN <<>>
    ELSE toFixed3(<<RatSum(metricScores)[1],
                    RatSum(metricScores)[2] * Len(metricScores)>>)

\* AnalyticsPoint keeping the initial correct: true of an unscored frame
AnalyticsPoint_CorrectByDefault(t, metricAngles, score, rule) ==
    [t |-> t,
     kneeAngle |-> metricAngles.knee,
     backAngle |-> metricAngles.back,
     elbowAngle |-> metricAngles.elbow,
     bodyAngle |-> metricAngles.body,
     hipAngle |-> metricAngles.hip,
     score |-> score,
     category |-> frameCategoryFromScore(score),
     correct |-> (score = <<>> \/ RatGe(score, Milli(rule.framePassThreshold)))]

\* the timeline point of a frame at time t with the given angles and score
AnalyticsPoint(t, metricAngles, score, rule) ==
    [t |-> t,
     kneeAngle |-> metricAngles.knee,
     backAngle |-> metricAngles.back,
     elbowAngle |-> metricAngles.elbow,
     bodyAngle |-> metricAngles.body,
     hipAngle |-> metricAngles.hip,
     score |-> score,
     category |-> frameCategoryFromScore(score),
     correct |-> (score # <<>> /\ RatGe(score, Milli(rule.framePassThreshold)))]

ScoredPoint(t, metricAngles, rule) ==
    AnalyticsPoint(t, metricAngles,
                   FrameScore(MetricScores(metricAngles, rule.metrics)), rule)

\* one timeline point: the body of the loop over session.frames
FramePoint(f, rule) == ScoredPoint(f.t, MetricAnglesOf(f.landmarks), rule)

\* the primary-metric value of a timeline point, as the series for rep detection
PrimaryValue(pt, primary) ==
    IF primary = "knee" THEN pt.kneeAngle
    ELSE IF primary = "back" THEN pt.backAngle
    ELSE IF primary = "elbow" THEN pt.elbowAngle
    ELSE IF primary = "body" THEN pt.bodyAngle
    ELSE IF primary = "front_knee" THEN pt.kneeAngle
    ELSE Coalesce(pt.kneeAngle, Coalesce(pt.elbowAngle, pt.bodyAngle))

\* AvgScore without the guard for an empty timeline: 0 / 0
AvgScore_Unguarded(timeline) ==
    LET scoreSum == RatSum([i \in 1..Len(timeline) |->
                        IF timeline[i].score # <<>> THEN timeline[i].score
                        ELSE <<0, 1>>])
    IN  IF Len(timeline) # 0
        THEN <<scoreSum[1], scoreSum[2] * Len(timeline)>>
        ELSE <<0, 0>>

\* AvgScore averaging over the scored frames only
AvgScore_SkipNull(timeline) ==
    LET scored == SelectIdx([i \in 1..Len(timeline) |-> timeline[i].score # <<>>],
                            1, Len(timeline))
        scoreSum == RatSum([k \in 1..Len(scored) |-> timeline[scored[k]].score])
    IN  IF Len(scored) # 0
        THEN <<scoreSum[1], scoreSum[2] * Len(scored)>>
        ELSE <<0, 1>>

\* totalFrames ? sum of (p.score || 0) / totalFrames : 0
AvgScore(timeline) ==
    LET scoreSum == RatSum([i \in 1..Len(timeline) |->
                        IF timeline[i].score # <<>> THEN timeline[i].score
                        ELSE <<0, 1>>])
    IN  IF Len(timeline) # 0
        THEN <<scoreSum[1], scoreSum[2] * Len(timeline)>>
        ELSE <<0, 1>>

\* the series searched for repetitions
PrimarySeries(timeline, primary) ==
    Tuple([i \in 1..Len(timeline) |-> PrimaryValue(timeline[i], primary)])

\* Valleys taking an index level with a neighbour as well
Valleys_NonStrict(smoothed) ==
    LET n == Len(smoothed)
    IN  SelectIdx([i \in 1..n |->
                      /\ 1 < i /\ i < n /\ isFinite(smoothed[i])
                      /\ isFinite(smoothed[i - 1]) /\ isFinite(smoothed[i + 1])
                      /\ smoothed[i] <= smoothed[i - 1]
                      /\ smoothed[i] <= smoothed[i + 1]], 1, n)

\* the interior indices strictly below both neighbours
Valleys(smoothed) ==
    LET n == Len(smoothed)
    IN  SelectIdx([i \in 1..n |->
                      /\ 1 < i /\ i < n /\ isFinite(smoothed[i])
                      /\ isFinite(smoothed[i - 1]) /\ isFinite(smoothed[i + 1])
                      /\ smoothed[i] < smoothed[i - 1]
                      /\ smoothed[i] < smoothed[i + 1]], 1, n)

\* the interior indices strictly above both neighbours
Peaks(smoothed) ==
    LET n == Len(smoothed)
    IN  SelectIdx([i \in 1..n |->
                      /\ 1 < i /\ i < n /\ isFinite(smoothed[i])
                      /\ isFinite(smoothed[i - 1]) /\ isFinite(smoothed[i + 1])
                      /\ smoothed[i] > smoothed[i - 1]
                      /\ smoothed[i] > smoothed[i + 1]], 1, n)

\* rule.metrics[primary]
PrimarySpec(rule) ==
    IF \E k \in 1..Len(rule.metrics) : rule.metrics[k].name = rule.primaryMetric
    THEN rule.metrics[CHOOSE k \in 1..Len(rule.metrics) :
                          rule.metrics[k].name = rule.primaryMetric]
    ELSE NoSpec

\* MinFramesForRep with Infinity lost (as after a JSON round trip: null || 6)
MinFramesForRep_InfinityLost(rule) ==
    IF rule.minFramesForRep \in {<<0>>, <<>>} THEN <<6>> ELSE rule.minFramesForRep

\* rule.minFramesForRep || 6
MinFramesForRep(rule) ==
    IF rule.minFramesForRep = <<0>> THEN <<6>> ELSE rule.minFramesForRep

\* TooShort honouring only the unbounded minimum
TooShort_InfinityOnly(si, ei, rule) == rule.minFramesForRep = <<>>

\* ei - si < (rule.minFramesForRep || 6)
TooShort(si, ei, rule) ==
    LET m == MinFramesForRep(rule) IN m = Infinity \/ ei - si < m[1]

\* KeyIndices keeping only the first and the last extremum
KeyIndices_Outermost(rule, valleys, peaks) ==
    IF rule.polarity = "peak"
    THEN (IF Len(peaks) < 2 THEN peaks ELSE <<peaks[1], peaks[Len(peaks)]>>)
    ELSE (IF Len(valleys) < 2 THEN valleys
          ELSE <<valleys[1], valleys[Len(valleys)]>>)

\* the extremum list the rep loop walks
KeyIndices(rule, valleys, peaks) ==
    IF rule.polarity = "peak" THEN peaks ELSE valleys

\* WithinTol always testing against the full tolerance
WithinTol_FullTolerance(v, spec, halves) ==
    v # NaN /\ Abs(v - Deg(spec.ideal)) <= Deg(spec.tol)

\* Math.abs(v - ideal) <= tol * factor, factor = 1 / halves
WithinTol(v, spec, halves) ==
    v # NaN /\ halves * Abs(v - Deg(spec.ideal)) <= Deg(spec.tol)

\* IsGoodRep judging by the mean frame score alone
IsGoodRep_ScoreOnly(meetsDepth, closeDepth, avgFrameScore, threshold) ==
    RatGe(avgFrameScore, Milli(threshold))

\* IsGoodRep judging by the depth alone
IsGoodRep_DepthOnly(meetsDepth, closeDepth, avgFrameScore, threshold) ==
    meetsDepth \/ closeDepth

\* isGood of one rep
IsGoodRep(meetsDepth, closeDepth, avgFrameScore, threshold) ==
    LET softThreshold == Max(400, threshold - 180)
    IN  \/ (meetsDepth /\ RatGe(avgFrameScore, Milli(threshold)))
        \/ (closeDepth /\ RatGe(avgFrameScore, Milli(softThreshold)))

\* RepOf averaging over the scored frames of the window only
RepOf_SkipUnscored(timeline, smoothed, si, ei, rule) ==
    LET smoothSeg == {smoothed[i] : i \in {j \in si..ei : isFinite(smoothed[j])}}
        minV == SetMin(smoothSeg)
        maxV == SetMax(smoothSeg)
        scored == SelectIdx([i \in 1..Len(timeline) |-> timeline[i].score # <<>>],
                            si, ei)
        frameScores == IF scored = <<>> THEN <<<<0, 1>>>>
                       ELSE [k \in 1..Len(scored) |-> timeline[scored[k]].score]
        sum == RatSum(frameScores)
        avgFrameScore == Rat(sum[1], sum[2] * Len(frameScores))
        primarySpec == PrimarySpec(rule)
        polarity == rule.polarity
        meetsDepth ==
            IF primarySpec # NoSpec
            THEN \/ (polarity = "valley" /\ WithinTol(minV, primarySpec, 1))
                 \/ (polarity = "peak" /\ WithinTol(maxV, primarySpec, 1))
            ELSE TRUE
        closeDepth ==
            IF primarySpec # NoSpec
            THEN IF polarity = "valley" THEN WithinTol(minV, primarySpec, 2)
                 ELSE WithinTol(maxV, primarySpec, 2)
            ELSE FALSE
    IN  [startT |-> timeline[si].t,
         endT |-> timeline[ei].t,
         minV |-> minV,
         maxV |-> maxV,
         isGood |-> IsGoodRep(meetsDepth, closeDepth, avgFrameScore,
                              rule.correctRatioThreshold),
         avgFrameScore |-> avgFrameScore,
         correctRatio |-> avgFrameScore,
         category |-> frameCategoryFromScore(avgFrameScore),
         frames |-> ei - si + 1]

\* the body of the loop over consecutive key indices: the rep for the window
\* si..ei
RepOf(timeline, smoothed, si, ei, rule) ==
    LET smoothSeg == {smoothed[i] : i \in {j \in si..ei : isFinite(smoothed[j])}}
        minV == SetMin(smoothSeg)
        maxV == SetMax(smoothSeg)
        frameScores == [k \in 1..(ei - si + 1) |->
                           IF timeline[si + k - 1].score # <<>>
                           THEN timeline[si + k - 1].score ELSE <<0, 1>>]
        sum == RatSum(frameScores)
        avgFrameScore == Rat(sum[1], sum[2] * Len(frameScores))
        primarySpec == PrimarySpec(rule)
        polarity == rule.polarity
        meetsDepth ==
            IF primarySpec # NoSpec
            THEN \/ (polarity = "valley" /\ WithinTol(minV, primarySpec, 1))
                 \/ (polarity = "peak" /\ WithinTol(maxV, primarySpec, 1))
            ELSE TRUE
        closeDepth ==
            IF primarySpec # NoSpec
            THEN IF polarity = "valley" THEN WithinTol(minV, primarySpec, 2)
                 ELSE WithinTol(maxV, primarySpec, 2)
            ELSE FALSE
    IN  [startT |-> timeline[si].t,
         endT |-> timeline[ei].t,
         minV |-> minV,
         maxV |-> maxV,
         isGood |-> IsGoodRep(meetsDepth, closeDepth, avgFrameScore,
                              rule.correctRatioThreshold),
         avgFrameScore |-> avgFrameScore,
         correctRatio |-> avgFrameScore,
         category |-> frameCategoryFromScore(avgFrameScore),
         frames |-> ei - si + 1]

Categories == {"Excellent", "Good", "Fair", "Poor", "Unknown"}

\* the number of reps marked good
GoodReps(repDetails) ==
    Cardinality({r \in 1..Len(repDetails) : repDetails[r].isGood})

\* the returned object, from the timeline, the reps and the mean score
AnalyticsResult(timeline, repDetails, avgScore, rule, sampleStep) ==
    [totalFrames |-> Len(timeline),
     correctFrames |-> Cardinality({i \in 1..Len(timeline) : timeline[i].correct}),
     accuracyPct |-> MathRound(<<avgScore[1] * 100, avgScore[2]>>),
     timeline |-> timeline,
     goodReps |-> GoodReps(repDetails),
     badReps |-> Len(repDetails) - GoodReps(repDetails),
     repDetails |-> repDetails,
     sampledForChart |-> buildSampled(timeline, sampleStep),
     meta |-> [ruleName |-> rule.name],
     categoryCounts |->
        [c \in Categories |->
            Cardinality({i \in 1..Len(timeline) : timeline[i].category = c})],
     repCategoryCounts |->
        [c \in {repDetails[r].category : r \in 1..Len(repDetails)} |->
            Cardinality({r \in 1..Len(repDetails) : repDetails[r].category = c})],
     overallWeightedScore |-> MathRound(<<avgScore[1] * 100, avgScore[2]>>)]

\* the reps of the windows keyIndices[k]..keyIndices[k + 1], k in kept
RepsOfWindows(timeline, smoothed, keyIndices, kept, rule) ==
    Tuple([r \in 1..Len(kept) |->
              RepOf(timeline, smoothed, keyIndices[kept[r]],
                    keyIndices[kept[r] + 1], rule)])

\* the loop over consecutive key indices, windows that are too short skipped
RepDetails(timeline, smoothed, keyIndices, rule) ==
    RepsOfWindows(timeline, smoothed, keyIndices,
                  SelectIdx([k \in 1..(Len(keyIndices) - 1) |->
                                ~TooShort(keyIndices[k], keyIndices[k + 1], rule)],
                            1, Len(keyIndices) - 1),
                  rule)

\* analyzeByRule from the extrema search on, given the smoothed series
AnalyzeSmoothed(timeline, smoothed, rule, sampleStep) ==
    AnalyticsResult(timeline,
                    RepDetails(timeline, smoothed,
                               KeyIndices(rule, Valleys(smoothed), Peaks(smoothed)),
                               rule),
                    AvgScore(timeline), rule, sampleStep)

\* analyzeByRule after the frame loop, given the timeline
AnalyzeTimeline(timeline, rule, smoothRadius, sampleStep) ==
    AnalyzeSmoothed(timeline,
                    Tuple(smoothSeries(PrimarySeries(timeline, rule.primaryMetric),
                                       smoothRadius)),
                    rule, sampleStep)

\* analyzeByRule skipping the frames without landmarks
analyzeByRule_SkipUntracked(sess, rule, o) ==
    AnalyzeTimeline(Tuple([i \in 1..Len(SelectSeq(sess.frames,
                                  LAMBDA f : f.landmarks # PoseEmpty)) |->
                              FramePoint(SelectSeq(sess.frames,
                                  LAMBDA f : f.landmarks # PoseEmpty)[i], rule)]),
                    rule, Coalesce(o.smoothRadius, 2), Coalesce(o.sampleStep, 1))

analyzeByRule(sess, rule, o) ==
    AnalyzeTimeline(Tuple([i \in 1..Len(sess.frames) |->
                              FramePoint(sess.frames[i], rule)]),
                    rule, Coalesce(o.smoothRadius, 2), Coalesce(o.sampleStep, 1))

(***************************************************************************)
(* Public API                                                              *)
(***************************************************************************)
\* ResolveRuleKey without the lower-casing
ResolveRuleKey_CaseSensitive(exercise) ==
    LET ex == trim(exercise)
        hits == {k \in 1..Len(RuleKeys) : includes(ex, KeyChars[RuleKeys[k]])}
    IN  IF hits = {} THEN "default" ELSE RuleKeys[SetMin(hits)]

\* Object.keys(RULES).find(k => ex.includes(k)) || "default"
ResolveRuleKey(exercise) ==
    LET ex == trim(toLowerCase(exercise))
        hits == {k \in 1..Len(RuleKeys) : includes(ex, KeyChars[RuleKeys[k]])}
    IN  IF hits = {} THEN "default" ELSE RuleKeys[SetMin(hits)]

\* the registry after rule.name = ruleKey, had rule been RULES[ruleKey]
\* itself and not a copy of it
RegistryAfterCall_NoCopy(reg, ruleKey) ==
    [reg EXCEPT ![ruleKey] = [name |-> ruleKey] @@ reg[ruleKey]]

\* the registry after a call: rule is a copy ({ ...RULES[ruleKey] }), so
\* rule.name = ruleKey does not reach the registry
RegistryAfterCall(reg, ruleKey) == reg

\* the rule is read from the registry (the module-level RULES object)
computeExerciseAnalytics(sess, o) ==
    LET ruleKey == ResolveRuleKey(sess.exercise)
        rule == [name |-> ruleKey] @@ registry[ruleKey]
    IN  analyzeByRule(sess, rule, o)

(***************************************************************************)
(* Inputs: the recordings, the activity identifiers and the options a      *)
(* caller passes.                                                          *)
(***************************************************************************)
MaxFrames == 4
MaxMotionFrames == 10
MaxShortFrames == 2
FrameStepMs == 400

ChainPos(lm) == CHOOSE k \in 1..Len(PoseChain) : PoseChain[k] = lm

\* a recording of one continuous movement: it starts standing, every frame is
\* tracked, and the pose moves at most one step along the chain per frame
Continuous(frames) ==
    /\ \A i \in 1..Len(frames) :
          \E k \in 1..Len(PoseChain) : frames[i].landmarks = PoseChain[k]
    /\ frames # <<>> => frames[1].landmarks = PoseUp
    /\ \A i \in 1..(Len(frames) - 1) :
          Abs(ChainPos(frames[i].landmarks) - ChainPos(frames[i + 1].landmarks)) <= 1

\* a recording in which tracking never found the body
Untracked(frames) == \A i \in 1..Len(frames) : frames[i].landmarks = PoseEmpty

\* the recordings the model considers: every short one, and up to
\* MaxMotionFrames frames the continuous movements and the untracked ones
Recordable(frames) ==
    \/ Len(frames) <= MaxFrames
    \/ Len(frames) <= MaxMotionFrames /\ (Continuous(frames) \/ Untracked(frames))

Str_Squat == <<"S", "q", "u", "a", "t">>
Str_PUSHUP_sp == <<" ", "P", "U", "S", "H", "U", "P", " ">>
Str_side_plank == <<"s", "i", "d", "e", " ", "p", "l", "a", "n", "k">>
Str_lunge_squat == <<"l", "u", "n", "g", "e", " ", "s", "q", "u", "a", "t">>
Str_tree_plank == <<"t", "r", "e", "e", " ", "p", "l", "a", "n", "k">>
Str_warrior == <<"w", "a", "r", "r", "i", "o", "r">>
Str_push_up == <<"p", "u", "s", "h", " ", "u", "p">>
Str_yoga == <<"y", "o", "g", "a">>
Str_spaces == <<" ", " ">>

\* the identifiers of the exercise library, and of the rules without a
\* library entry; the empty identifier stands for a session without one
ExerciseNames ==
    {Str_squat, Str_pushup, Str_plank, Str_lunge, Str_tree, Str_warrior2, <<>>}

\* identifiers as other callers may write them
OtherNames ==
    {Str_Squat, Str_PUSHUP_sp, Str_side_plank, Str_lunge_squat, Str_tree_plank,
     Str_warrior, Str_push_up, Str_yoga, Str_spaces, Str_default}

NoOpts == [smoothRadius |-> Null, sampleStep |-> Null]
OptionSets == {NoOpts}
OtherOptionSets ==
    {[smoothRadius |-> 0, sampleStep |-> Null],
     [smoothRadius |-> 1, sampleStep |-> 2]}

NoResult == [totalFrames |-> Null]

(***************************************************************************)
(* The state machine                                                       *)
(***************************************************************************)
Init ==
    /\ session \in [exercise : ExerciseNames, frames : {<<>>}]
    /\ opts \in OptionSets
    /\ result = NoResult
    /\ pc = "recording"
    /\ args = <<>>
    /\ registry = RULES
    /\ AppInit

\* the capture side appends one frame to the session being recorded
AddFrame(lm) ==
    /\ pc = "recording"
    /\ LET frames == Append(session.frames,
                            [t |-> Len(session.frames) * FrameStepMs,
                             landmarks |-> lm])
       IN  /\ Recordable(frames)
           /\ session' = [session EXCEPT !.frames = frames]
    /\ UNCHANGED <<opts, result, pc, args, registry>>
    /\ UNCHANGED appVars

\* computeExerciseAnalytics(session, opts)
Analyze ==
    /\ pc = "recording"
    /\ result' = computeExerciseAnalytics(session, opts)
    /\ registry' = RegistryAfterCall(registry, ResolveRuleKey(session.exercise))
    /\ pc' = "analysed"
    /\ UNCHANGED <<session, opts, args>>
    /\ UNCHANGED appVars

\* the caller drops the result and turns to another session
NewSession ==
    /\ pc = "analysed"
    /\ session' \in [exercise : ExerciseNames, frames : {<<>>}]
    /\ opts' \in OptionSets
    /\ result' = NoResult
    /\ pc' = "recording"
    /\ UNCHANGED <<args, registry>>
    /\ UNCHANGED appVars

Next ==
    \/ \E lm \in Poses : AddFrame(lm)
    \/ Analyze
    \/ NewSession

Spec == Init /\ [][Next]_vars

\* the bottom of a lunge: the left leg in front with its thigh level and its
\* knee at 90 degrees, the right leg behind and straight (180), so that the
\* knee metric is 135 and the front_knee metric 90
PoseLunge ==
    [i \in LandmarkIdx |->
        CASE i \in {7, 8} -> <<100, 60>>
          [] i \in {11, 12} -> <<100, 70>>
          [] i \in {13, 14} -> <<100, 110>>
          [] i \in {15, 16} -> <<100, 150>>
          [] i \in {23, 24} -> <<100, 100>>
          [] i = 25 -> <<140, 100>>
          [] i = 27 -> <<140, 140>>
          [] i = 26 -> <<100, 140>>
          [] i = 28 -> <<100, 180>>]
ShortPoses == Poses \union {PoseLunge}

\* short sessions under every identifier and every option set
InitShort ==
    /\ session \in [exercise : ExerciseNames \union OtherNames, frames : {<<>>}]
    /\ opts \in OptionSets \union OtherOptionSets
    /\ result = NoResult
    /\ pc = "recording"
    /\ args = <<>>
    /\ registry = RULES
    /\ AppInit

AddShortFrame(lm) ==
    /\ Len(session.frames) < MaxShortFrames
    /\ AddFrame(lm)

NextShort ==
    \/ \E lm \in ShortPoses : AddShortFrame(lm)
    \/ Analyze
    \/ NewSession

SpecShort == InitShort /\ [][NextShort]_vars

(***************************************************************************)
(* Recordings of one continuous movement in which tracking may lose the    *)
(* body for a single frame, under the rules whose primary metric is the    *)
(* knee.                                                                   *)
(***************************************************************************)
Tracked(frames) == SelectSeq(frames, LAMBDA f : f.landmarks # PoseEmpty)

OneDropout(frames) ==
    /\ Continuous(Tracked(frames))
    /\ \A i, j \in 1..Len(frames) :
          (frames[i].landmarks = PoseEmpty /\ frames[j].landmarks = PoseEmpty)
              => i = j

DropoutNames == {Str_squat, <<>>}

InitDropout ==
    /\ session \in [exercise : DropoutNames, frames : {<<>>}]
    /\ opts = NoOpts
    /\ result = NoResult
    /\ pc = "recording"
    /\ args = <<>>
    /\ registry = RULES
    /\ AppInit

AddDropoutFrame(lm) ==
    /\ pc = "recording"
    /\ Len(session.frames) < MaxMotionFrames
    /\ LET frames == Append(session.frames,
                            [t |-> Len(session.frames) * FrameStepMs,
                             landmarks |-> lm])
       IN  /\ OneDropout(frames)
           /\ session' = [session EXCEPT !.frames = frames]
    /\ UNCHANGED <<opts, result, pc, args, registry>>
    /\ UNCHANGED appVars

NextDropout ==
    \/ \E lm \in Poses : AddDropoutFrame(lm)
    \/ Analyze

SpecDropout == InitDropout /\ [][NextDropout]_vars

(***************************************************************************)
(* The helpers of the engine called on their own, once each on inputs      *)
(* drawn from bounded sets: pc names the helper, args holds the arguments   *)
(* and result the value returned.                                          *)
(***************************************************************************)
GridMax == 2
GridPoints == {<<x, y>> : x \in 0..GridMax, y \in 0..GridMax}

InitUnits ==
    /\ session = [exercise |-> <<>>, frames |-> <<>>]
    /\ opts = NoOpts
    /\ result = NoResult
    /\ pc = "idle"
    /\ args = <<>>
    /\ registry = RULES
    /\ AppInit

\* getAngle(a, b, c)
CallGetAngle(a, b, c) ==
    /\ pc = "idle"
    /\ pc' = "getAngle"
    /\ args' = <<a, b, c>>
    /\ result' = getAngle(a, b, c)
    /\ UNCHANGED <<session, opts, registry>>
    /\ UNCHANGED appVars

\* a limb seen from the side: <<offset of the joint from the hip or shoulder,
\* offset of the ankle or wrist from the joint>>, or <<>> when it is not seen
LimbFolded == <<<<0, 40>>, <<0, 0 - 20>>>>      \* joint angle 0
LimbBent == <<<<0, 40>>, <<40, 0>>>>            \* joint angle 90
LimbStraight == <<<<0, 40>>, <<0, 40>>>>        \* joint angle 180
LimbRaised == <<<<40, 0>>, <<0, 40>>>>          \* joint level with its root
LimbCollapsed == <<<<0, 0>>, <<0, 40>>>>        \* joint on top of its root
LimbJointOnly == <<<<0, 30>>, <<>>>>            \* ankle or wrist not seen
LimbUnseen == <<>>
Limbs == {LimbFolded, LimbBent, LimbStraight, LimbRaised, LimbCollapsed,
          LimbJointOnly, LimbUnseen}

\* one side of the body: whether the ear is seen, its arm and its leg
Sides == [ear : BOOLEAN, arm : Limbs, leg : Limbs]

\* the landmark list of an upright trunk with the two sides given
TwoSided(left, right) ==
    LET hip == <<100, 100>>
        shoulder == <<100, 70>>
        side(i) == IF i % 2 = 1 THEN left ELSE right
        joint(root, limb) == IF limb = LimbUnseen THEN <<>> ELSE Add2(root, limb[1])
        tip(root, limb) ==
            IF limb = LimbUnseen THEN <<>>
            ELSE IF limb[2] = <<>> THEN <<>>
            ELSE Add2(Add2(root, limb[1]), limb[2])
    IN  [i \in LandmarkIdx |->
            CASE i \in {7, 8} -> IF side(i).ear THEN <<100, 60>> ELSE <<>>
              [] i \in {11, 12} -> shoulder
              [] i \in {13, 14} -> joint(shoulder, side(i).arm)
              [] i \in {15, 16} -> tip(shoulder, side(i).arm)
              [] i \in {23, 24} -> hip
              [] i \in {25, 26} -> joint(hip, side(i).leg)
              [] i \in {27, 28} -> tip(hip, side(i).leg)]

\* computeMetricAnglesFromLandmarks(lm)
CallComputeMetricAngles(lm) ==
    /\ pc = "idle"
    /\ pc' = "computeMetricAnglesFromLandmarks"
    /\ args' = <<lm>>
    /\ result' = computeMetricAnglesFromLandmarks(lm)
    /\ UNCHANGED <<session, opts, registry>>
    /\ UNCHANGED appVars

\* the registered rules as computeExerciseAnalytics passes them, and a rule
\* whose tolerances are zero and negative
RuleExact ==
    [name |-> "exact",
     primaryMetric |-> "knee",
     metrics |-> <<Metric("knee", 85, 0), Metric("back", 180, 0 - 5)>>,
     minFramesForRep |-> <<6>>,
     correctRatioThreshold |-> 550,
     framePassThreshold |-> 600,
     polarity |-> "valley"]
UnitRules ==
    {[name |-> RuleKeys[k]] @@ RULES[RuleKeys[k]] : k \in 1..Len(RuleKeys)}
        \union {RuleExact}

\* the sessions of one to MaxUnitFrames frames, FrameStepMs apart
MaxUnitFrames == 3
UnitSessions ==
    {[exercise |-> <<>>,
      frames |-> [i \in 1..Len(lms) |-> [t |-> (i - 1) * FrameStepMs,
                                         landmarks |-> lms[i]]]] :
        lms \in UNION {[1..n -> ShortPoses] : n \in 1..MaxUnitFrames}}

\* the options of a call: none, or a stride for the chart series
UnitOptions ==
    {NoOpts,
     [smoothRadius |-> Null, sampleStep |-> 2],
     [smoothRadius |-> 0, sampleStep |-> 3]}

\* analyzeByRule(session, rule, opts)
CallAnalyzeByRule(sess, rule, o) ==
    /\ pc = "idle"
    /\ pc' = "analyzeByRule"
    /\ args' = <<sess, rule, o>>
    /\ result' = analyzeByRule(sess, rule, o)
    /\ UNCHANGED <<session, opts, registry>>
    /\ UNCHANGED appVars

\* the series of up to MaxSeriesLen entries, each null or an angle
MaxSeriesLen == 5
SeriesValues == {Null, Deg(0), Deg(10), Deg(20)}
SeriesOfLen(n) == [1..n -> SeriesValues]
Series == UNION {SeriesOfLen(n) : n \in 0..MaxSeriesLen}
Radii == {0, 1, 2}

\* smoothSeries(vals, radius)
CallSmoothSeries(vals, radius) ==
    /\ pc = "idle"
    /\ pc' = "smoothSeries"
    /\ args' = <<vals, radius>>
    /\ result' = smoothSeries(vals, radius)
    /\ UNCHANGED <<session, opts, registry>>
    /\ UNCHANGED appVars

\* the smoothing of a series and the search for its extrema
DetectExtrema(vals, radius) ==
    /\ pc = "idle"
    /\ pc' = "extrema"
    /\ args' = <<vals, radius>>
    /\ result' = [smoothed |-> Tuple(smoothSeries(vals, radius)),
                  valleys |-> Valleys(Tuple(smoothSeries(vals, radius))),
                  peaks |-> Peaks(Tuple(smoothSeries(vals, radius)))]
    /\ UNCHANGED <<session, opts, registry>>
    /\ UNCHANGED appVars

NextUnits ==
    \/ \E a, b, c \in GridPoints \union {<<>>} : CallGetAngle(a, b, c)
    \/ \E left, right \in Sides : CallComputeMetricAngles(TwoSided(left, right))
    \/ \E sess \in UnitSessions, rule \in UnitRules, o \in UnitOptions :
          CallAnalyzeByRule(sess, rule, o)
    \/ \E vals \in Series, radius \in Radii : CallSmoothSeries(vals, radius)
    \/ \E vals \in Series, radius \in Radii : DetectExtrema(vals, radius)

SpecUnits == InitUnits /\ [][NextUnits]_vars

(***************************************************************************)
(* Session storage (src/src/utils/sessionStorage.ts).  The two lists are   *)
(* the parsed values of the localStorage keys SUMMARY_KEY and FULL_KEY,    *)
(* newest first; a stored summary or full session is followed by its id.   *)
(* localStorage.setItem throws when the quota is exceeded: this can happen *)
(* to the write of the full-session list in saveFullSession, which carries *)
(* the frames, and not to a write that stores a filtered list.             *)
(***************************************************************************)
Undefined == <<>>

\* saveSessionSummary(summary), on the stored list
saveSessionSummary(stored, summary) == <<summary>> \o stored

\* listSessionSummaries()
listSessionSummaries == summaries

\* saveFullSession(session), on the stored list; the write may throw
saveFullSession(stored, sess, writeOk) ==
    IF writeOk THEN <<sess>> \o stored ELSE stored

\* getFullSessionById(id): the first stored session with that id
getFullSessionById(stored, id) ==
    IF \E k \in 1..Len(stored) : stored[k].id = id
    THEN stored[CHOOSE k \in 1..Len(stored) :
                    /\ stored[k].id = id
                    /\ \A j \in 1..(k - 1) : stored[j].id # id]
    ELSE Undefined

\* arr.filter((s) => s.id !== id)
WithoutId(arr, id) ==
    LET Keep(s) == s.id # id
    IN  SelectSeq(arr, Keep)

\* deleteSessionById dropping the summary and leaving the full session
deleteSessionById_SummaryOnly(storedSummaries, storedFull, id) ==
    <<WithoutId(storedSummaries, id), storedFull>>

\* deleteSessionById(id): the two stored lists afterwards
deleteSessionById(storedSummaries, storedFull, id) ==
    <<WithoutId(storedSummaries, id), WithoutId(storedFull, id)>>

(***************************************************************************)
(* The session recorder (src/src/pages/SessionRecorder.tsx) and the logs   *)
(* page (src/unnamed/part_006).  A frame record is represented by its      *)
(* time t; frames arrive FrameStepMs apart.                                *)
(***************************************************************************)
MAX_IN_MEMORY_FRAMES == 2000
DateNow == 1700000000
MaxRecorded == 2002
MaxSessions == 3

\* the preview buffer cut to its first MAX_IN_MEMORY_FRAMES frames
TrimPreview_KeepFirst(frames) ==
    IF Len(frames) > MAX_IN_MEMORY_FRAMES
    THEN SubSeq(frames, 1, MAX_IN_MEMORY_FRAMES)
    ELSE frames

\* framesRef.current.splice(0, length - MAX_IN_MEMORY_FRAMES) when too long
TrimPreview(frames) ==
    IF Len(frames) > MAX_IN_MEMORY_FRAMES
    THEN SubSeq(frames, Len(frames) - MAX_IN_MEMORY_FRAMES + 1, Len(frames))
    ELSE frames

\* the Start Recording button, shown while not recording
startRecording ==
    /\ ~recording
    /\ framesRef' = <<>>
    /\ framesFullRef' = <<>>
    /\ recording' = TRUE
    /\ startTs' = DateNow
    /\ pc' = "idle"
    /\ args' = <<>>
    /\ UNCHANGED <<engineVars, storeVars>>

\* pose.onResults: a result with or without pose landmarks
onResults(poseLandmarks) ==
    /\ Len(framesFullRef) < MaxRecorded
    /\ IF poseLandmarks /\ recording /\ startTs # Null /\ startTs # 0
       THEN LET rec == Len(framesFullRef) * FrameStepMs
            IN  /\ framesFullRef' = Append(framesFullRef, rec)
                /\ framesRef' = TrimPreview(Append(framesRef, rec))
       ELSE UNCHANGED <<framesRef, framesFullRef>>
    /\ pc' = "idle"
    /\ args' = <<>>
    /\ UNCHANGED <<recording, startTs, engineVars, storeVars>>

\* the Stop Recording button, shown while recording, and the recorder's
\* onstop handler: the session gets a fresh id, saveFullSession is tried and
\* its failure caught, then saveSessionSummary stores the summary
stopRecording(fullWriteOk) ==
    /\ recording
    /\ nextId <= MaxSessions
    /\ fullSessions' = saveFullSession(fullSessions, [id |-> nextId], fullWriteOk)
    /\ summaries' = saveSessionSummary(summaries, [id |-> nextId])
    /\ nextId' = nextId + 1
    /\ recording' = FALSE
    /\ pc' = "idle"
    /\ args' = <<>>
    /\ UNCHANGED <<startTs, framesRef, framesFullRef, engineVars>>

\* the Clear button
Clear ==
    /\ framesRef' = <<>>
    /\ framesFullRef' = <<>>
    /\ pc' = "idle"
    /\ args' = <<>>
    /\ UNCHANGED <<recording, startTs, engineVars, storeVars>>

\* handleDeleteSession: deleteSessionById(id); args keeps the id and the two
\* stored lists as they were at the call
handleDeleteSession(id) ==
    /\ summaries' = deleteSessionById(summaries, fullSessions, id)[1]
    /\ fullSessions' = deleteSessionById(summaries, fullSessions, id)[2]
    /\ pc' = "deleteSessionById"
    /\ args' = <<id, summaries, fullSessions>>
    /\ UNCHANGED <<nextId, engineVars, recorderVars>>

\* handleDeleteAll: deleteAllSessions()
handleDeleteAll ==
    /\ summaries' = <<>>
    /\ fullSessions' = <<>>
    /\ pc' = "idle"
    /\ args' = <<>>
    /\ UNCHANGED <<nextId, engineVars, recorderVars>>

\* openSummary(s) on the k-th listed summary: result is selectedFull
openSummary(k) ==
    /\ k \in 1..Len(listSessionSummaries)
    /\ pc' = "openSummary"
    /\ args' = <<listSessionSummaries[k]>>
    /\ result' = getFullSessionById(fullSessions, listSessionSummaries[k].id)
    /\ UNCHANGED <<session, opts, registry, recorderVars, storeVars>>

InitApp == InitUnits

\* recording sessions and managing the stored ones
NextLogs ==
    \/ startRecording
    \/ \E fullWriteOk \in BOOLEAN : stopRecording(fullWriteOk)
    \/ \E id \in 1..MaxSessions : handleDeleteSession(id)
    \/ handleDeleteAll
    \/ \E k \in 1..MaxSessions : openSummary(k)

SpecLogs == InitApp /\ [][NextLogs]_vars

\* recording with the pose results arriving
NextRecorder ==
    \/ startRecording
    \/ \E poseLandmarks \in BOOLEAN : onResults(poseLandmarks)
    \/ \E fullWriteOk \in BOOLEAN : stopRecording(fullWriteOk)
    \/ Clear

SpecRecorder == InitApp /\ [][NextRecorder]_vars

(***************************************************************************)
(* Properties of the analysis result.                                      *)
(***************************************************************************)
Analysed == pc = "analysed"
AppliedRule == RULES[ResolveRuleKey(session.exercise)]
Timeline == result.timeline
Reps == result.repDetails
KneeOf(f) == MetricAnglesOf(f.landmarks).knee
BackOf(f) == MetricAnglesOf(f.landmarks).back

\* the series falls (weakly) to its lowest point and rises (weakly) from it:
\* one dip from `high` to `low` and back
DipsOnce(series, high, low) ==
    /\ Len(series) >= 3
    /\ series[1] = high
    /\ series[Len(series)] = high
    /\ \E j \in 2..(Len(series) - 1) :
          /\ series[j] = low
          /\ \A i \in 1..(j - 1) : series[i] >= series[i + 1]
          /\ \A i \in j..(Len(series) - 1) : series[i] <= series[i + 1]

C1_SquatDipSession ==
    /\ session.exercise = Str_squat
    /\ opts = NoOpts
    /\ Len(session.frames) = 10
    /\ DipsOnce([i \in 1..Len(session.frames) |-> KneeOf(session.frames[i])],
                Deg(175), Deg(85))
    /\ \A i \in 1..Len(session.frames) : BackOf(session.frames[i]) = Deg(180)

\* C1: a 10-frame squat session whose knee angle dips once from 175 to 85
\* degrees and back, back angle ideal, default options, yields exactly one
\* rep, which is good and of category Excellent or Good.
C1_OneGoodRep ==
    (Analysed /\ C1_SquatDipSession) =>
        /\ Len(Reps) = 1
        /\ Reps[1].isGood
        /\ Reps[1].category \in {"Excellent", "Good"}

\* C2: under a rule of polarity "none" the result has no reps, whatever the
\* shape of the primary-metric series.
C2_NoRepsWithoutPolarity ==
    (Analysed /\ AppliedRule.polarity = "none") =>
        /\ Reps = <<>>
        /\ result.goodReps = 0
        /\ result.badReps = 0
        /\ DOMAIN result.repCategoryCounts = {}

\* a held pose whose smoothed primary series has two valleys at least six
\* frames apart: a window that a rep rule would have emitted
C2_HoldWithValleys ==
    /\ Analysed
    /\ AppliedRule.polarity = "none"
    /\ Reps = <<>>
    /\ LET sm == Tuple(smoothSeries(
                     PrimarySeries(Timeline, AppliedRule.primaryMetric), 2))
           v == Valleys(sm)
       IN  /\ Len(Peaks(sm)) >= 1
           /\ \E i \in 1..Len(v) : i < Len(v) /\ v[i + 1] - v[i] >= 6

\* C3: every rep spans at least minFramesForRep frames (its frames field is
\* the number of timeline points from its start to its end) under every rule
\* with a finite minimum.
C3_RepsLongEnough ==
    (Analysed /\ AppliedRule.minFramesForRep # Infinity) =>
        \A k \in 1..Len(Reps) :
            /\ Reps[k].frames >= AppliedRule.minFramesForRep[1]
            /\ Reps[k].frames = (Reps[k].endT - Reps[k].startT) \div FrameStepMs + 1

C3_RepEmitted ==
    /\ Analysed
    /\ AppliedRule.minFramesForRep = <<6>>
    /\ \E k \in 1..Len(Reps) : Reps[k].frames = 7

\* the extreme smoothed primary value of the rep is farther from the ideal
\* than the tolerance
C4_TooShallow(rep, rule) ==
    LET spec == PrimarySpec(rule)
        extreme == IF rule.polarity = "peak" THEN rep.maxV ELSE rep.minV
    IN  Abs(extreme - Deg(spec.ideal)) > Deg(spec.tol)

\* C4: a rep whose extreme smoothed primary value is farther from the ideal
\* than the tolerance is never good, however high its mean frame score.
C4_ShallowRepNeverGood ==
    (Analysed /\ AppliedRule.polarity \in {"valley", "peak"}) =>
        \A k \in 1..Len(Reps) :
            C4_TooShallow(Reps[k], AppliedRule) => ~Reps[k].isGood

C4_ShallowRepWithPassingScore ==
    /\ Analysed
    /\ \E k \in 1..Len(Reps) :
          /\ C4_TooShallow(Reps[k], AppliedRule)
          /\ RatGe(Reps[k].avgFrameScore, Milli(AppliedRule.correctRatioThreshold))
          /\ ~Reps[k].isGood

\* C5: a session of N frames without landmarks is analysed to totalFrames N,
\* correctFrames 0, accuracyPct 0, every timeline point Unknown and no reps,
\* under every activity identifier.
C5_UntrackedSession ==
    (Analysed /\ Untracked(session.frames)) =>
        /\ result.totalFrames = Len(session.frames)
        /\ Len(Timeline) = Len(session.frames)
        /\ result.correctFrames = 0
        /\ result.accuracyPct = 0
        /\ \A i \in 1..Len(Timeline) :
              Timeline[i].category = "Unknown" /\ Timeline[i].score = <<>>
        /\ result.categoryCounts["Unknown"] = Len(session.frames)
        /\ Reps = <<>>
        /\ result.goodReps = 0
        /\ result.badReps = 0

C5_LongUntrackedSession ==
    /\ Analysed
    /\ Untracked(session.frames)
    /\ Len(session.frames) >= 9
    /\ result.totalFrames = Len(session.frames)

\* the outcome a caller would get if the analysis failed
C6_Failure == [error |-> TRUE]

\* C6 as stated: analysing a session with an empty frame list is signalled
\* to the caller as a failure.
C6_EmptySessionFails ==
    (Analysed /\ session.frames = <<>>) => result = C6_Failure

\* C6 as the code has it: a session with an empty frame list is analysed to
\* an ordinary result of zero frames, zero accuracy, an empty timeline and
\* no reps.
C6_EmptySessionIsAllZero ==
    (Analysed /\ session.frames = <<>>) =>
        /\ result # C6_Failure
        /\ result.totalFrames = 0
        /\ result.correctFrames = 0
        /\ result.accuracyPct = 0
        /\ result.overallWeightedScore = 0
        /\ Timeline = <<>>
        /\ result.sampledForChart = <<>>
        /\ Reps = <<>>
        /\ result.goodReps = 0
        /\ result.badReps = 0
        /\ \A c \in Categories : result.categoryCounts[c] = 0

C6_EmptySessionAnalysed ==
    /\ Analysed
    /\ session.frames = <<>>
    /\ result.totalFrames = 0
    /\ result.meta.ruleName \in {RuleKeys[k] : k \in 1..Len(RuleKeys)}

\* the rule each identifier of the input set resolves to, written out
C7_ExpectedKey(e) ==
    CASE e = Str_squat -> "squat"
      [] e = Str_pushup -> "pushup"
      [] e = Str_plank -> "plank"
      [] e = Str_lunge -> "lunge"
      [] e = Str_tree -> "tree"
      [] e = Str_warrior2 -> "warrior2"
      [] e = Str_default -> "default"
      [] e = Str_Squat -> "squat"
      [] e = Str_PUSHUP_sp -> "pushup"
      [] e = Str_side_plank -> "plank"
      [] e = Str_lunge_squat -> "squat"
      [] e = Str_tree_plank -> "plank"
      [] e = Str_warrior -> "default"
      [] e = Str_push_up -> "default"
      [] e = Str_yoga -> "default"
      [] e = Str_spaces -> "default"
      [] e = <<>> -> "default"

\* C7: the rule is the first key of RULES, in declaration order, contained
\* in the lower-cased, trimmed identifier, or default when none is; the
\* result reports it as meta.ruleName and is scored by its thresholds.
C7_RuleResolution ==
    Analysed =>
        LET key == C7_ExpectedKey(session.exercise)
        IN  /\ result.meta.ruleName = key
            /\ \A i \in 1..Len(Timeline) :
                  Timeline[i].correct =
                      (/\ Timeline[i].score # <<>>
                       /\ Timeline[i].score[1] >= RULES[key].framePassThreshold)
            /\ (RULES[key].polarity = "none" => Reps = <<>>)

C7_FirstOfTwoKeys ==
    /\ Analysed
    /\ session.exercise = Str_lunge_squat
    /\ result.meta.ruleName = "squat"
    /\ Len(Timeline) >= 1

\* C8: every timeline point's score is null or a number from 0 to 1.
C8_ScoreInUnitInterval ==
    Analysed =>
        \A i \in 1..Len(Timeline) :
            LET sc == Timeline[i].score
            IN  sc = <<>> \/ (sc[2] > 0 /\ 0 <= sc[1] /\ sc[1] <= sc[2])

C8_NullZeroAndPartialScores ==
    /\ Analysed
    /\ \E i \in 1..Len(Timeline) : Timeline[i].score = <<>>
    /\ \E i \in 1..Len(Timeline) :
          Timeline[i].score # <<>> /\ Timeline[i].score[1] = 0
    /\ \E i \in 1..Len(Timeline) :
          /\ Timeline[i].score # <<>>
          /\ 0 < Timeline[i].score[1]
          /\ Timeline[i].score[1] < Timeline[i].score[2]

\* the tier of a score, from the four breakpoints
C9_Tier(score) ==
    IF score = <<>> THEN "Unknown"
    ELSE LET m == score[2]
             n == 1000 * score[1]
         IN  IF n >= 850 * m THEN "Excellent"
             ELSE IF n >= 650 * m THEN "Good"
             ELSE IF n >= 400 * m THEN "Fair"
             ELSE "Poor"

C9_Rank(category) ==
    CASE category = "Poor" -> 1
      [] category = "Fair" -> 2
      [] category = "Good" -> 3
      [] category = "Excellent" -> 4
      [] category = "Unknown" -> 0

\* the <<score, category>> pairs of the frames and reps of the result
C9_Scored ==
    {<<Timeline[i].score, Timeline[i].category>> : i \in 1..Len(Timeline)}
        \cup {<<Reps[k].avgFrameScore, Reps[k].category>> : k \in 1..Len(Reps)}

\* C9: the category of a frame or rep is the tier of its score alone
\* (null Unknown, >= 0.85 Excellent, >= 0.65 Good, >= 0.40 Fair, else Poor),
\* the same under every rule, and a higher score never has a lower tier.
C9_CategoryFromScoreAlone ==
    Analysed =>
        /\ \A x \in C9_Scored : x[2] = C9_Tier(x[1])
        /\ \A x, y \in C9_Scored :
              (x[1] # <<>> /\ y[1] # <<>> /\ RatGe(x[1], y[1])) =>
                  C9_Rank(x[2]) >= C9_Rank(y[2])

C9_FramesAndRepInSeveralTiers ==
    /\ Analysed
    /\ \E i, j \in 1..Len(Timeline) :
          Timeline[i].category = "Excellent" /\ Timeline[j].category = "Fair"
    /\ \E k \in 1..Len(Reps) : Reps[k].category = "Good"

\* round(100 x mean score), a null score counting 0, from the timeline
C10_RoundedMean ==
    LET n == Len(Timeline)
        thousandths == SumSeq([i \in 1..n |->
                           IF Timeline[i].score = <<>> THEN 0
                           ELSE (1000 * Timeline[i].score[1])
                                    \div Timeline[i].score[2]])
    IN  IF n = 0 THEN 0 ELSE (2 * thousandths + 10 * n) \div (20 * n)

\* C10: accuracyPct is round(100 x the mean timeline score, null as 0),
\* equals overallWeightedScore, lies in 0..100, and is 0 with zero frames.
C10_AccuracyIsRoundedMean ==
    Analysed =>
        /\ result.accuracyPct = C10_RoundedMean
        /\ result.overallWeightedScore = result.accuracyPct
        /\ result.accuracyPct \in 0..100
        /\ (Len(Timeline) = 0 => result.accuracyPct = 0)

C10_MeanOverNullAndScored ==
    /\ Analysed
    /\ \E i \in 1..Len(Timeline) : Timeline[i].score = <<>>
    /\ \E i \in 1..Len(Timeline) :
          Timeline[i].score # <<>> /\ Timeline[i].score[1] > 0
    /\ result.accuracyPct > 0
    /\ result.accuracyPct < 100

\* C11: the timeline has one point per input frame, in input order and with
\* the frame's timestamp, and totalFrames is the number of input frames; a
\* frame without landmarks still has its point.
C11_OnePointPerFrame ==
    Analysed =>
        /\ Len(Timeline) = Len(session.frames)
        /\ result.totalFrames = Len(session.frames)
        /\ \A i \in 1..Len(session.frames) :
              /\ Timeline[i].t = session.frames[i].t
              /\ Timeline[i].kneeAngle = KneeOf(session.frames[i])
              /\ Timeline[i].backAngle = BackOf(session.frames[i])

C11_UntrackedFrameBetweenTracked ==
    /\ Analysed
    /\ Len(Timeline) = 3
    /\ session.frames[1].landmarks = PoseDown
    /\ session.frames[2].landmarks = PoseEmpty
    /\ session.frames[3].landmarks = PoseUp
    /\ Timeline[2].t = FrameStepMs
    /\ Timeline[3].kneeAngle = Deg(175)

\* C12: a timeline point is correct exactly when its score is non-null and at
\* least the rule's framePassThreshold, and correctFrames counts the correct
\* points (so it is at most totalFrames).
C12_CorrectIffScorePasses ==
    Analysed =>
        /\ \A i \in 1..Len(Timeline) :
              Timeline[i].correct =
                  (/\ Timeline[i].score # <<>>
                   /\ 1000 * Timeline[i].score[1]
                          >= AppliedRule.framePassThreshold * Timeline[i].score[2])
        /\ result.correctFrames =
               Cardinality({i \in 1..Len(Timeline) : Timeline[i].correct})
        /\ result.correctFrames <= result.totalFrames

C12_PassingFailingAndUnscored ==
    /\ Analysed
    /\ \E i, j, k \in 1..Len(Timeline) :
          /\ Timeline[i].correct
          /\ Timeline[j].score # <<>> /\ ~Timeline[j].correct
          /\ Timeline[k].score = <<>> /\ ~Timeline[k].correct
    /\ result.correctFrames >= 1
    /\ result.correctFrames < result.totalFrames

\* C13: getAngle returns null when a point is missing or a ray has zero
\* length, and otherwise the angle at b, a value from 0 to 180 degrees (90
\* for perpendicular rays, 0 and 180 for parallel ones, below 90 exactly when
\* the rays make an acute angle); it never returns NaN.
C13_AngleOrNull ==
    pc = "getAngle" =>
        LET a == args[1]
            b == args[2]
            c == args[3]
        IN  IF a = <<>> \/ b = <<>> \/ c = <<>> \/ a = b \/ c = b
            THEN result = Null
            ELSE LET dot == (a[1] - b[1]) * (c[1] - b[1])
                                + (a[2] - b[2]) * (c[2] - b[2])
                     cross == (a[1] - b[1]) * (c[2] - b[2])
                                  - (a[2] - b[2]) * (c[1] - b[1])
                 IN  /\ result # NaN
                     /\ result # Null
                     /\ result >= Deg(0)
                     /\ result <= Deg(180)
                     /\ (dot = 0) = (result = Deg(90))
                     /\ (dot > 0) = (result < Deg(90))
                     /\ (cross = 0 /\ dot > 0) = (result = Deg(0))
                     /\ (cross = 0 /\ dot < 0) = (result = Deg(180))

C13_ZeroLengthRay ==
    /\ pc = "getAngle"
    /\ args[1] # <<>>
    /\ args[3] # <<>>
    /\ args[1] = args[2]
    /\ args[3] # args[2]
    /\ result = Null

\* C14: a call of computeExerciseAnalytics leaves the session it is given and
\* the RULES registry as they were, so every call, the first and any later
\* one, resolves and applies the rules as declared.
C14_CallLeavesInputsAlone ==
    [][(pc = "recording" /\ pc' = "analysed") =>
          /\ session' = session
          /\ registry' = registry
          /\ registry' = RULES
          /\ result'.meta.ruleName = C7_ExpectedKey(session.exercise)
          /\ \A i \in 1..Len(result'.timeline) :
                result'.timeline[i].correct =
                    (/\ result'.timeline[i].score # <<>>
                     /\ result'.timeline[i].score[1] >=
                            RULES[result'.meta.ruleName].framePassThreshold)]_vars

C14_SessionAnalysedRegistryIntact ==
    /\ Analysed
    /\ Len(session.frames) >= 2
    /\ Len(Timeline) = Len(session.frames)
    /\ result.meta.ruleName = "lunge"
    /\ registry = RULES
    /\ "name" \notin DOMAIN registry["lunge"]

\* the bilateral policy: the mean of the two sides, the one side that has an
\* angle, or null when neither has
C15_MeanOfSides(l, r) ==
    IF l # Null /\ r # Null THEN (l + r) \div 2
    ELSE IF l # Null THEN l
    ELSE r

\* C15: each bilateral metric (knee, elbow, back, body) is the mean of its
\* left and right angles when both exist, the existing one when only one
\* does, and null only when neither does, for angles from 0 to 180.
C15_BilateralMetrics ==
    pc = "computeMetricAnglesFromLandmarks" =>
        LET lm == args[1]
        IN  /\ result.knee = C15_MeanOfSides(getAngle(lm[23], lm[25], lm[27]),
                                             getAngle(lm[24], lm[26], lm[28]))
            /\ result.elbow = C15_MeanOfSides(getAngle(lm[11], lm[13], lm[15]),
                                              getAngle(lm[12], lm[14], lm[16]))
            /\ result.back = C15_MeanOfSides(getAngle(lm[7], lm[11], lm[23]),
                                             getAngle(lm[8], lm[12], lm[24]))
            /\ result.body = C15_MeanOfSides(getAngle(lm[11], lm[23], lm[27]),
                                             getAngle(lm[12], lm[24], lm[28]))

\* C16: the series smoothed and searched for extrema is, at every frame
\* index, the frame's extracted value of the rule's primaryMetric; with
\* primaryMetric front_knee it is the front_knee metric of each frame.
C16_SeriesIsPrimaryMetric ==
    Analysed =>
        \A i \in 1..Len(Timeline) :
            PrimarySeries(Timeline, AppliedRule.primaryMetric)[i] =
                MetricValue(MetricAnglesOf(session.frames[i].landmarks),
                            AppliedRule.primaryMetric)

\* the smoothed primary series of the result, recomputed from its timeline
C17_Smoothed ==
    Tuple(smoothSeries(PrimarySeries(Timeline, AppliedRule.primaryMetric),
                       Coalesce(opts.smoothRadius, 2)))

\* the interior indices at which the series is strictly below both
\* neighbours (polarity valley or none) or strictly above both (peak)
C17_KeyExtrema ==
    LET sm == C17_Smoothed
    IN  {i \in 2..(Len(sm) - 1) :
            /\ isFinite(sm[i]) /\ isFinite(sm[i - 1]) /\ isFinite(sm[i + 1])
            /\ IF AppliedRule.polarity = "peak"
               THEN sm[i] > sm[i - 1] /\ sm[i] > sm[i + 1]
               ELSE sm[i] < sm[i - 1] /\ sm[i] < sm[i + 1]}

C18_DepthError(rep) ==
    LET spec == PrimarySpec(AppliedRule)
        extreme == IF AppliedRule.polarity = "peak" THEN rep.maxV ELSE rep.minV
    IN  Abs(extreme - AngleUnit * spec.ideal)

C18_MeetsDepth(rep) ==
    C18_DepthError(rep) <= AngleUnit * PrimarySpec(AppliedRule).tol

C18_CloseDepth(rep) ==
    2 * C18_DepthError(rep) <= AngleUnit * PrimarySpec(AppliedRule).tol

\* avgFrameScore >= thousandths / 1000
C18_ScoreAtLeast(rep, thousandths) ==
    1000 * rep.avgFrameScore[1] >= thousandths * rep.avgFrameScore[2]

C18_SoftThreshold ==
    IF AppliedRule.correctRatioThreshold - 180 > 400
    THEN AppliedRule.correctRatioThreshold - 180
    ELSE 400

\* C18: a rep is good exactly when it meets the depth (extreme within the
\* full tolerance) with avgFrameScore >= correctRatioThreshold, or is close
\* to it (within half the tolerance) with avgFrameScore >= softThreshold =
\* max(0.4, correctRatioThreshold - 0.18).
C18_GoodRepRule ==
    Analysed =>
        \A k \in 1..Len(Reps) :
            Reps[k].isGood =
                (\/ /\ C18_MeetsDepth(Reps[k])
                    /\ C18_ScoreAtLeast(Reps[k], AppliedRule.correctRatioThreshold)
                 \/ /\ C18_CloseDepth(Reps[k])
                    /\ C18_ScoreAtLeast(Reps[k], C18_SoftThreshold))

C18_DeepEnoughButScoreBetweenThresholds ==
    /\ Analysed
    /\ \E k \in 1..Len(Reps) :
          /\ C18_MeetsDepth(Reps[k])
          /\ ~C18_CloseDepth(Reps[k])
          /\ C18_ScoreAtLeast(Reps[k], C18_SoftThreshold)
          /\ ~C18_ScoreAtLeast(Reps[k], AppliedRule.correctRatioThreshold)
          /\ ~Reps[k].isGood

\* the timeline indices of the rep's window, from its start and end times
C19_Window(rep) ==
    {i \in 1..Len(Timeline) :
        rep.startT <= Timeline[i].t /\ Timeline[i].t <= rep.endT}

\* the sum over the window of the frame scores in thousandths, null as 0
C19_WindowThousandths(rep) ==
    SumSeq([i \in 1..Len(Timeline) |->
               IF i \in C19_Window(rep) /\ Timeline[i].score # <<>>
               THEN (1000 * Timeline[i].score[1]) \div Timeline[i].score[2]
               ELSE 0])

\* C19: a rep's avgFrameScore is the sum of the scores of all frames of its
\* window, a null score counting 0, divided by the number of frames of the
\* window; unscored frames stay in the denominator.
C19_RepMeanCountsUnscoredAsZero ==
    Analysed =>
        \A k \in 1..Len(Reps) :
            /\ Cardinality(C19_Window(Reps[k])) = Reps[k].frames
            /\ Reps[k].avgFrameScore[2] > 0
            /\ 1000 * Reps[k].frames * Reps[k].avgFrameScore[1] =
                   C19_WindowThousandths(Reps[k]) * Reps[k].avgFrameScore[2]
            /\ Reps[k].correctRatio = Reps[k].avgFrameScore

C19_RepWithUnscoredFrame ==
    /\ Analysed
    /\ \E k \in 1..Len(Reps) :
          /\ \E i \in C19_Window(Reps[k]) : Timeline[i].score = <<>>
          /\ \E i \in C19_Window(Reps[k]) :
                Timeline[i].score # <<>> /\ Timeline[i].score[1] > 0
          /\ Reps[k].avgFrameScore[1] > 0
          /\ Reps[k].frames >= 7

\* max(0, 1 - errorFactor) of a metric value, as a rational
C20_MetricScore(value, spec) ==
    LET err == Abs(value - AngleUnit * spec.ideal)
        tol == AngleUnit * spec.tol
    IN  IF spec.tol <= 0 THEN (IF err = 0 THEN <<1, 1>> ELSE <<0, 1>>)
        ELSE IF err >= tol THEN <<0, 1>>
        ELSE Rat(tol - err, tol)

\* the metrics of the rule that have a value in frame i of the session
C20_Valued(i) ==
    LET angles == computeMetricAnglesFromLandmarks(args[1].frames[i].landmarks)
        metrics == args[2].metrics
    IN  {k \in 1..Len(metrics) :
            /\ metrics[k].name \in DOMAIN angles
            /\ angles[metrics[k].name] # Null}

\* the mean of the metric scores over the valued metrics of frame i
C20_Mean(i) ==
    LET angles == computeMetricAnglesFromLandmarks(args[1].frames[i].landmarks)
        metrics == args[2].metrics
        total == RatSum([k \in 1..Len(metrics) |->
                            IF k \in C20_Valued(i)
                            THEN C20_MetricScore(angles[metrics[k].name], metrics[k])
                            ELSE <<0, 1>>])
    IN  <<total[1], total[2] * Cardinality(C20_Valued(i))>>

\* C20 as stated: a frame's score is the mean of max(0, 1 - errorFactor)
\* over the metrics of the rule that have a value in the frame, and null when
\* none has.
C20_ScoreIsMean ==
    pc = "analyzeByRule" =>
        \A i \in 1..Len(Timeline) :
            IF C20_Valued(i) = {} THEN Timeline[i].score = <<>>
            ELSE /\ Timeline[i].score # <<>>
                 /\ Timeline[i].score[1] * C20_Mean(i)[2] =
                        C20_Mean(i)[1] * Timeline[i].score[2]

\* C20 as the code has it: a frame's score is that mean rounded to three
\* decimals (a whole number of thousandths at most half a thousandth from
\* the mean), and null when no metric of the rule has a value.
C20_ScoreIsMeanToThreeDecimals ==
    pc = "analyzeByRule" =>
        \A i \in 1..Len(Timeline) :
            IF C20_Valued(i) = {} THEN Timeline[i].score = <<>>
            ELSE /\ Timeline[i].score # <<>>
                 /\ Timeline[i].score[2] = 1000
                 /\ 2 * Abs(Timeline[i].score[1] * C20_Mean(i)[2]
                                - 1000 * C20_Mean(i)[1]) <= C20_Mean(i)[2]

C20_RoundedMeanOverValuedMetric ==
    /\ pc = "analyzeByRule"
    /\ args[2].name = "lunge"
    /\ \E i \in 1..Len(Timeline) :
          /\ C20_Valued(i) = {1}
          /\ Timeline[i].score # <<>>
          /\ 0 < Timeline[i].score[1]
          /\ Timeline[i].score[1] * C20_Mean(i)[2] # 1000 * C20_Mean(i)[1]

\* the sum of the non-null entries of vals at indices lo..hi
RECURSIVE C21_WindowSum(_, _, _)
C21_WindowSum(vals, lo, hi) ==
    IF lo > hi THEN 0
    ELSE (IF vals[lo] = Null THEN 0 ELSE vals[lo]) + C21_WindowSum(vals, lo + 1, hi)

\* the number of non-null entries of vals at indices lo..hi
C21_WindowCount(vals, lo, hi) == Cardinality({j \in lo..hi : vals[j] # Null})

\* C21: smoothSeries(vals, radius) has the length of vals; its value at i is
\* the mean of the non-null values of vals at max(0, i-radius) ..
\* min(n-1, i+radius), and is non-finite, never 0, when there is none; radius
\* 0 is the identity on non-null entries, and radius 2 on
\* [null, 10, null, 20, null] gives 15 at index 2.
C21_SmoothedIsWindowMean ==
    pc = "smoothSeries" =>
        LET vals == args[1]
            radius == args[2]
            n == Len(args[1])
        IN  /\ DOMAIN result = 1..n
            /\ \A i \in 1..n :
                  LET lo == IF i - radius < 1 THEN 1 ELSE i - radius
                      hi == IF i + radius > n THEN n ELSE i + radius
                  IN  IF C21_WindowCount(vals, lo, hi) = 0
                      THEN result[i] = NaN /\ result[i] # 0 /\ ~isFinite(result[i])
                      ELSE result[i] * C21_WindowCount(vals, lo, hi) =
                               C21_WindowSum(vals, lo, hi)
            /\ radius = 0 =>
                  \A i \in 1..n : vals[i] # Null => result[i] = vals[i]
            /\ (vals = <<Null, Deg(10), Null, Deg(20), Null>> /\ radius = 2) =>
                  result[3] = Deg(15)

C21_GapsBridgedAndLeft ==
    /\ pc = "smoothSeries"
    /\ args = <<<<Null, Deg(10), Null, Deg(20), Null>>, 2>>
    /\ result[3] = Deg(15)

\* the indices a list of extrema holds
C22_Recorded(list) == {list[k] : k \in 1..Len(list)}

\* index i has a finite value and finite neighbours on both sides
C22_Comparable(sm, i) ==
    /\ 2 <= i /\ i <= Len(sm) - 1
    /\ sm[i - 1] # NaN /\ sm[i] # NaN /\ sm[i + 1] # NaN

\* C22: an index is recorded as a valley exactly when it is interior, its
\* value and both neighbours are finite and it is strictly less than both
\* neighbours, and as a peak exactly when it is strictly greater than both;
\* the first and last index, an index with a non-finite value or neighbour
\* and an index on a flat plateau are never extrema.
C22_ExtremaAreStrictInteriorTurns ==
    pc = "extrema" =>
        LET sm == result.smoothed
        IN  \A i \in 1..Len(sm) :
               /\ i \in C22_Recorded(result.valleys) <=>
                     (C22_Comparable(sm, i)
                        /\ sm[i] < sm[i - 1] /\ sm[i] < sm[i + 1])
               /\ i \in C22_Recorded(result.peaks) <=>
                     (C22_Comparable(sm, i)
                        /\ sm[i] > sm[i - 1] /\ sm[i] > sm[i + 1])
               /\ (i = 1 \/ i = Len(sm) \/ sm[i] = NaN
                     \/ (i > 1 /\ (sm[i - 1] = NaN \/ sm[i - 1] = sm[i]))
                     \/ (i < Len(sm) /\ (sm[i + 1] = NaN \/ sm[i + 1] = sm[i])))
                  => i \notin C22_Recorded(result.valleys) \union
                                C22_Recorded(result.peaks)

C22_ValleyPeakAndDipBesideGap ==
    /\ pc = "extrema"
    /\ result.valleys # <<>>
    /\ result.peaks # <<>>
    /\ \E i \in 2..(Len(result.smoothed) - 1) :
          /\ result.smoothed[i] # NaN
          /\ result.smoothed[i - 1] # NaN
          /\ result.smoothed[i] < result.smoothed[i - 1]
          /\ result.smoothed[i + 1] = NaN
          /\ i \notin C22_Recorded(result.valleys)

\* the shoulder-hip-knee angle of the left and of the right side
C23_LeftHipAngle == getAngle(args[1][11], args[1][23], args[1][25])
C23_RightHipAngle == getAngle(args[1][12], args[1][24], args[1][26])

\* C23: the hip metric is the left shoulder-hip-knee angle whenever the left
\* triple yields an angle, otherwise the right one whenever the right triple
\* yields an angle, and null only when neither side yields an angle.
C23_HipPrefersLeftThenRight ==
    pc = "computeMetricAnglesFromLandmarks" =>
        IF C23_LeftHipAngle # Null THEN result.hip = C23_LeftHipAngle
        ELSE IF C23_RightHipAngle # Null THEN result.hip = C23_RightHipAngle
        ELSE result.hip = Null

\* the hip-knee-ankle angle of the left and of the right leg
C24_LeftLegAngle == getAngle(args[1][23], args[1][25], args[1][27])
C24_RightLegAngle == getAngle(args[1][24], args[1][26], args[1][28])

\* C24: when both knee landmarks are present, front_knee is the
\* hip-knee-ankle angle of the leg whose knee landmark has the smaller y
\* coordinate, and the other leg's angle is never used for it, even when the
\* operative leg's hip or ankle is missing.
C24_FrontKneeIsRaisedLeg ==
    (/\ pc = "computeMetricAnglesFromLandmarks"
     /\ args[1][25] # <<>>
     /\ args[1][26] # <<>>) =>
        /\ args[1][25][2] < args[1][26][2] =>
              result.front_knee =
                  (IF args[1][23] # <<>> /\ args[1][27] # <<>>
                   THEN C24_LeftLegAngle ELSE Null)
        /\ args[1][26][2] < args[1][25][2] =>
              result.front_knee =
                  (IF args[1][24] # <<>> /\ args[1][28] # <<>>
                   THEN C24_RightLegAngle ELSE Null)

C24_RaisedLegWithoutAnkle ==
    /\ pc = "computeMetricAnglesFromLandmarks"
    /\ args[1][25] # <<>>
    /\ args[1][26] # <<>>
    /\ args[1][25][2] < args[1][26][2]
    /\ args[1][27] = <<>>
    /\ C24_RightLegAngle # Null
    /\ result.knee = C24_RightLegAngle
    /\ result.front_knee = Null

\* the stride of the chart series and the timeline index of its k-th entry
C25_Stride == IF args[3].sampleStep = Null THEN 1 ELSE args[3].sampleStep
C25_Index(k) == (k - 1) * C25_Stride + 1

\* entry k of the chart series is timeline point C25_Index(k) with its time
\* in whole seconds and its correct, score and category fields
C25_Copied(k) ==
    LET e == result.sampledForChart[k]
        p == Timeline[C25_Index(k)]
    IN  /\ 1000 * e.timeSec <= p.t + 500
        /\ p.t + 500 < 1000 * e.timeSec + 1000
        /\ e.correct = p.correct
        /\ e.score = p.score
        /\ e.category = p.category

\* the value of the rule's primary metric at timeline point i
C25_PrimaryValue(i) ==
    MetricValue(computeMetricAnglesFromLandmarks(args[1].frames[i].landmarks),
                args[2].primaryMetric)

\* C25: sampledForChart holds one entry for each timeline index 0, stride,
\* 2*stride, ..., in order; each entry's value is that point's value of the
\* rule's primary metric, its timeSec is round(t/1000), and correct, score
\* and category are copied unchanged.
C25_ChartSeriesShowsPrimaryMetric ==
    (pc = "analyzeByRule" /\ C25_Stride >= 1) =>
        /\ \A k \in 1..Len(result.sampledForChart) : C25_Index(k) <= Len(Timeline)
        /\ \A i \in 1..Len(Timeline) :
              (i - 1) % C25_Stride = 0 =>
                  \E k \in 1..Len(result.sampledForChart) : C25_Index(k) = i
        /\ \A k \in 1..Len(result.sampledForChart) :
              /\ C25_Copied(k)
              /\ result.sampledForChart[k].value = C25_PrimaryValue(C25_Index(k))

\* the one produced metric of the lunge and of the tree rule
C26_ProducedMetric ==
    IF args[2].name = "lunge" THEN "front_knee" ELSE "arms"

\* the rule's target for that metric
C26_ProducedSpec ==
    args[2].metrics[CHOOSE k \in 1..Len(args[2].metrics) :
                        args[2].metrics[k].name = C26_ProducedMetric]

\* the value of that metric in frame i, and its metric score
C26_Value(i) ==
    computeMetricAnglesFromLandmarks(args[1].frames[i].landmarks)[C26_ProducedMetric]
C26_Score(i) == C20_MetricScore(C26_Value(i), C26_ProducedSpec)

\* C26 as stated: torso and standing_leg are never produced, so every lunge
\* frame's score equals its front_knee metric score alone and every tree
\* frame's score its arms metric score alone, and is null when that metric is
\* null.
C26_ScoreIsProducedMetricScore ==
    (pc = "analyzeByRule" /\ args[2].name \in {"lunge", "tree"}) =>
        \A i \in 1..Len(Timeline) :
            IF C26_Value(i) = Null THEN Timeline[i].score = <<>>
            ELSE /\ Timeline[i].score # <<>>
                 /\ Timeline[i].score[1] * C26_Score(i)[2] =
                        C26_Score(i)[1] * Timeline[i].score[2]

\* C26 as the code has it: the frame score is that one metric score rounded
\* to three decimals, and null when that metric is null.
C26_ScoreIsProducedMetricScoreRounded ==
    (pc = "analyzeByRule" /\ args[2].name \in {"lunge", "tree"}) =>
        \A i \in 1..Len(Timeline) :
            IF C26_Value(i) = Null THEN Timeline[i].score = <<>>
            ELSE /\ Timeline[i].score # <<>>
                 /\ Timeline[i].score[2] = 1000
                 /\ 2 * Abs(Timeline[i].score[1] * C26_Score(i)[2]
                                - 1000 * C26_Score(i)[1]) <= C26_Score(i)[2]

C26_LungeFrameScoredOnFrontKneeOnly ==
    /\ pc = "analyzeByRule"
    /\ args[2].name = "lunge"
    /\ \E k \in 1..Len(args[2].metrics) : args[2].metrics[k].name = "torso"
    /\ \E i, j \in 1..Len(Timeline) :
          /\ C26_Value(i) # Null
          /\ Timeline[i].score # <<>>
          /\ Timeline[i].score[1] > 500
          /\ C26_Value(j) = Null
          /\ Timeline[j].score = <<>>

\* the number of reps counted under category c
C27_Counted(c) ==
    IF c \in DOMAIN result.repCategoryCounts THEN result.repCategoryCounts[c] ELSE 0

\* C27: a good rep has avgFrameScore >= 0.4 and so category Fair, Good or
\* Excellent, never Poor; no rep has category Unknown, repCategoryCounts has
\* only the keys Excellent, Good, Fair and Poor and its values sum to the
\* number of reps.
C27_GoodRepsAtLeastFair ==
    Analysed =>
        /\ \A r \in 1..Len(Reps) :
              /\ Reps[r].isGood =>
                    /\ Reps[r].avgFrameScore[1] * 1000 >= 400 * Reps[r].avgFrameScore[2]
                    /\ Reps[r].category \in {"Fair", "Good", "Excellent"}
              /\ Reps[r].category # "Unknown"
        /\ DOMAIN result.repCategoryCounts \subseteq {"Excellent", "Good", "Fair", "Poor"}
        /\ C27_Counted("Excellent") + C27_Counted("Good") + C27_Counted("Fair")
               + C27_Counted("Poor") = Len(Reps)

C27_GoodRepRatedFair ==
    /\ Analysed
    /\ \E r \in 1..Len(Reps) : Reps[r].isGood /\ Reps[r].category = "Fair"
    /\ C27_Counted("Fair") >= 1

\* the entries of arr whose id is not id, in their order
RECURSIVE C28_Others(_, _)
C28_Others(arr, id) ==
    IF arr = <<>> THEN <<>>
    ELSE (IF Head(arr).id = id THEN <<>> ELSE <<Head(arr)>>)
             \o C28_Others(Tail(arr), id)

\* C28: deleteSessionById(id) removes every stored summary and every stored
\* full session whose id is id and leaves all others stored in their
\* original order; afterwards getFullSessionById(id) is undefined and
\* listSessionSummaries() has no entry with that id.
C28_DeleteRemovesExactlyThatId ==
    pc = "deleteSessionById" =>
        /\ summaries = C28_Others(args[2], args[1])
        /\ fullSessions = C28_Others(args[3], args[1])
        /\ getFullSessionById(fullSessions, args[1]) = Undefined
        /\ \A k \in 1..Len(listSessionSummaries) :
              listSessionSummaries[k].id # args[1]

C28_MiddleOfThreeDeleted ==
    /\ pc = "deleteSessionById"
    /\ Len(args[2]) = 3
    /\ Len(args[3]) = 3
    /\ args[2][2].id = args[1]
    /\ summaries = <<args[2][1], args[2][3]>>
    /\ fullSessions = <<args[3][1], args[3][3]>>

\* C29: every stored summary has a stored full session with the same id, so
\* opening any listed summary finds its frames, also over runs in which a
\* write of the full-session list fails.
C29_EverySummaryHasFullSession ==
    /\ \A k \in 1..Len(summaries) :
          getFullSessionById(fullSessions, summaries[k].id) # Undefined
    /\ pc = "openSummary" => result # Undefined

\* the last min(n, MAX_IN_MEMORY_FRAMES) frames of the full buffer
C30_TailOfFull ==
    LET n == Len(framesFullRef)
        m == IF n < MAX_IN_MEMORY_FRAMES THEN n ELSE MAX_IN_MEMORY_FRAMES
    IN  SubSeq(framesFullRef, n - m + 1, n)

\* the preview buffer holds at most MAX_IN_MEMORY_FRAMES frames, the last
\* ones of the full buffer
C30_PreviewIsTail ==
    /\ Len(framesRef) <= MAX_IN_MEMORY_FRAMES
    /\ framesRef = C30_TailOfFull

\* the full buffer changes by one frame appended while recording or by being
\* emptied, and a recording starts with both buffers empty
C30_Step ==
    /\ framesFullRef' # framesFullRef =>
          \/ /\ recording
             /\ Len(framesFullRef') = Len(framesFullRef) + 1
             /\ SubSeq(framesFullRef', 1, Len(framesFullRef)) = framesFullRef
          \/ framesFullRef' = <<>>
    /\ (recording /\ recording') => Len(framesFullRef') >= Len(framesFullRef)
                                        \/ framesFullRef' = <<>>
    /\ (~recording /\ recording') => (framesRef' = <<>> /\ framesFullRef' = <<>>)

=============================================================================
